---- MODULE Spec2Model ----
(***************************************************************************)
(* A model of insertster's placement pipeline (insertster/_core.py and    *)
(* insertster/_measures.py): decorate -> propagate -> score -> best ->     *)
(* insert, over a rooted ordered tree held in an arena of nodes.           *)
(*                                                                         *)
(* Nodes are 1..Len(parent); node 1 is the root.  A Python dict is a       *)
(* function whose DOMAIN is the key set; an attribute that has not been    *)
(* set on a node is a node missing from the attribute's DOMAIN.  Scores    *)
(* are exact rationals <<num, den>> in lowest terms (floating point        *)
(* rounding is not modelled).                                              *)
(***************************************************************************)
EXTENDS Integers, Sequences, FiniteSets

VARIABLES parent, children, name, length,
          hitlist, threshold, hits,
          ntips, min_tip_dist, root_dist,
          score_f, scores, results, ins_threshold, length_fn, stage

vars == <<parent, children, name, length, hitlist, threshold, hits,
          ntips, min_tip_dist, root_dist, score_f, scores, results,
          ins_threshold, length_fn, stage>>

----------------------------------------------------------------------------
(* Bounds and input alphabets *)

\* a tree has at most MaxNodes nodes, a hit list at most MaxHits hits, and a
\* tree and its hit list together at most MaxSize nodes and hits
MaxNodes == 4
MaxHits == 2
MaxSize == 6

\* Node i of the tree as given is named NodeNames[i]; the names of the
\* queries are not names of nodes of the tree as given.
NodeNames == <<"a", "b", "c", "d", "e", "f", "g", "h">>
Queries == {"query1", "query2"}
NoSuchName == "zz"
SeqScores == {1, 2}
Thresholds == {<<>>, <<2>>}
ScoreFns == {"len_local", "f1_measure"}
InsertThresholds == {1, 2}
LengthFns == {"default", "by_place"}

----------------------------------------------------------------------------
(* Tree primitives (skbio.TreeNode as used by _core.py) *)

Nodes(p) == 1..Len(p)

is_tip(ch, i) == ch[i] = <<>>

RECURSIVE AncOrSelf(_, _, _)
AncOrSelf(p, a, i) ==
    IF i = 0 THEN FALSE
    ELSE IF a = i THEN TRUE
    ELSE AncOrSelf(p, a, p[i])

\* Parent vectors of the ordered trees with n nodes, numbered in preorder.
TreeShapes(n) ==
    {p \in [1..n -> 0..n] :
        /\ p[1] = 0
        /\ \A i \in 2..n : p[i] \in 1..(i-1) /\ AncOrSelf(p, p[i], i-1)}

RECURSIVE SeqOfSet(_)
SeqOfSet(S) ==
    IF S = {} THEN <<>>
    ELSE LET m == CHOOSE x \in S : \A y \in S : x <= y
         IN <<m>> \o SeqOfSet(S \ {m})

ChildrenOf(p) == [i \in Nodes(p) |-> SeqOfSet({j \in Nodes(p) : p[j] = i})]

RECURSIVE postorder(_, _)
RECURSIVE postorder_children(_, _, _)
postorder(ch, i) == postorder_children(ch, i, 1) \o <<i>>
postorder_children(ch, i, k) ==
    IF k > Len(ch[i]) THEN <<>>
    ELSE postorder(ch, ch[i][k]) \o postorder_children(ch, i, k + 1)

RECURSIVE traverse(_, _)
RECURSIVE traverse_children(_, _, _)
traverse(ch, i) == <<i>> \o traverse_children(ch, i, 1)
traverse_children(ch, i, k) ==
    IF k > Len(ch[i]) THEN <<>>
    ELSE traverse(ch, ch[i][k]) \o traverse_children(ch, i, k + 1)

\* tree.find(name), which looks the name up among the tips and then among
\* the internal nodes (the tests call find('c'), find('h') and find('root')
\* on internal nodes): the tip of that name, else the internal node of that
\* name, else 0 (MissingNodeError).
find(nm, ch, subject) ==
    LET tips == {i \in DOMAIN nm : nm[i] = subject /\ is_tip(ch, i)}
        non_tips == {i \in DOMAIN nm : nm[i] = subject /\ ~is_tip(ch, i)}
    IN IF tips # {} THEN CHOOSE i \in tips : TRUE
       ELSE IF non_tips # {} THEN CHOOSE i \in non_tips : \A j \in non_tips : i <= j
       ELSE 0

----------------------------------------------------------------------------
(* dict / defaultdict(list) *)

EmptyDict == [q \in {} |-> <<>>]

Get(d, k) == IF k \in DOMAIN d THEN d[k] ELSE <<>>

Put(d, k, v) == [x \in (DOMAIN d) \cup {k} |-> IF x = k THEN v ELSE d[x]]

----------------------------------------------------------------------------
(* decorate *)

default_threshold(thr) == IF thr = <<>> THEN 0 ELSE thr[1]

passes_Strict(seq_score, t) == seq_score > t

passes_Flipped(seq_score, t) == seq_score <= t

passes(seq_score, t) == seq_score >= t

RECURSIVE decorate_hits(_, _, _, _, _, _)
decorate_hits(nm, ch, hl, t, h, k) ==
    IF k > Len(hl) THEN [ok |-> TRUE, hits |-> h]
    ELSE LET detail == hl[k]
             node == find(nm, ch, detail.subject)
         IN IF node = 0 THEN [ok |-> FALSE, hits |-> h]
            ELSE decorate_hits(nm, ch, hl, t,
                     IF passes(detail.seq_score, t)
                     THEN [h EXCEPT ![node] =
                              Put(@, detail.query,
                                  Append(Get(@, detail.query), detail.seq_score))]
                     ELSE h,
                     k + 1)

decorate(nm, ch, hl, thr) ==
    decorate_hits(nm, ch, hl, default_threshold(thr),
                  [i \in DOMAIN nm |-> EmptyDict], 1)

----------------------------------------------------------------------------
(* propagate *)

extend_from_child_Assigns(node_hits, child_hits) ==
    [q \in (DOMAIN node_hits) \cup (DOMAIN child_hits) |->
        IF q \in DOMAIN child_hits THEN child_hits[q] ELSE node_hits[q]]

\* node.hits[name].extend(identities) for every (name, identities) of one child
extend_from_child(node_hits, child_hits) ==
    [q \in (DOMAIN node_hits) \cup (DOMAIN child_hits) |->
        IF q \in DOMAIN child_hits
        THEN Get(node_hits, q) \o child_hits[q]
        ELSE node_hits[q]]

RECURSIVE extend_from_children(_, _, _, _)
extend_from_children(ch, h, node, k) ==
    IF k > Len(ch[node]) THEN h
    ELSE extend_from_children(ch,
             [h EXCEPT ![node] = extend_from_child(@, h[ch[node][k]])],
             node, k + 1)

RECURSIVE propagate_over(_, _, _, _)
propagate_over(ch, h, order, k) ==
    IF k > Len(order) THEN h
    ELSE propagate_over(ch,
             IF is_tip(ch, order[k]) THEN h
             ELSE extend_from_children(ch, h, order[k], 1),
             order, k + 1)

\* np.asarray(values): an array holding the same numbers in the same order
asarray(values) == [k \in 1..Len(values) |-> values[k]]

propagate(ch, h) ==
    LET up == propagate_over(ch, h, postorder(ch, 1), 1)
    IN [i \in DOMAIN up |-> [q \in DOMAIN up[i] |-> asarray(up[i][q])]]

----------------------------------------------------------------------------
(* _set_number_of_tips, _set_minimum_distance_to_tips, _set_distance_to_root *)

RECURSIVE reduce_add_from(_, _, _, _, _)
reduce_add_from(ch, nt, node, k, acc) ==
    IF k > Len(ch[node]) THEN acc
    ELSE reduce_add_from(ch, nt, node, k + 1, acc + nt[ch[node][k]])

reduce_add_CountsChildren(ch, nt, node) == Len(ch[node])

\* reduce(add, [child.ntips for child in node.children])
reduce_add(ch, nt, node) == reduce_add_from(ch, nt, node, 2, nt[ch[node][1]])

RECURSIVE set_number_of_tips_over(_, _, _, _)
set_number_of_tips_over(ch, nt, order, k) ==
    IF k > Len(order) THEN nt
    ELSE set_number_of_tips_over(ch,
             Put(nt, order[k],
                 IF is_tip(ch, order[k]) THEN 1
                 ELSE reduce_add(ch, nt, order[k])),
             order, k + 1)

set_number_of_tips(ch, nt) ==
    set_number_of_tips_over(ch, nt, postorder(ch, 1), 1)

min_child(ch, mtd, node) ==
    LET S == {mtd[ch[node][k]] : k \in 1..Len(ch[node])}
    IN CHOOSE m \in S : \A x \in S : m <= x

RECURSIVE set_minimum_distance_to_tips_over(_, _, _, _)
set_minimum_distance_to_tips_over(ch, mtd, order, k) ==
    IF k > Len(order) THEN mtd
    ELSE set_minimum_distance_to_tips_over(ch,
             Put(mtd, order[k],
                 IF is_tip(ch, order[k]) THEN 0
                 ELSE min_child(ch, mtd, order[k]) + 1),
             order, k + 1)

set_minimum_distance_to_tips(ch, mtd) ==
    set_minimum_distance_to_tips_over(ch, mtd, postorder(ch, 1), 1)

RECURSIVE set_distance_to_root_over(_, _, _, _)
set_distance_to_root_over(p, rd, order, k) ==
    IF k > Len(order) THEN rd
    ELSE set_distance_to_root_over(p,
             Put(rd, order[k], rd[p[order[k]]] + 1), order, k + 1)

set_distance_to_root(p, ch, rd) ==
    set_distance_to_root_over(p, Put(rd, 1, 0), Tail(traverse(ch, 1)), 1)

----------------------------------------------------------------------------
(* Rational arithmetic for the scores *)

RECURSIVE GCD(_, _)
GCD(a, b) == IF b = 0 THEN a ELSE GCD(b, a % b)

Rat(a, b) == LET g == GCD(a, b) IN <<a \div g, b \div g>>

RMul(x, y) == Rat(x[1] * y[1], x[2] * y[2])
RDiv(x, y) == Rat(x[1] * y[2], x[2] * y[1])
RAdd(x, y) == Rat(x[1] * y[2] + y[1] * x[2], x[2] * y[2])
RGt(x, y) == x[1] * y[2] > y[1] * x[2]
RGe(x, y) == x[1] * y[2] >= y[1] * x[2]

----------------------------------------------------------------------------
(* _measures.py: the F-beta family, and the tests' counting score *)

make_f_beta(beta, global_, local_, node_ntips) ==
    LET beta_2 == RMul(beta, beta)
        coeff == RAdd(Rat(1, 1), beta_2)
        p == Rat(Len(global_), Len(local_))
        r == Rat(Len(local_), node_ntips)
    IN RDiv(RMul(coeff, RMul(p, r)), RAdd(RMul(beta_2, p), r))

f1_measure(global_, local_, node_ntips) ==
    make_f_beta(Rat(1, 1), global_, local_, node_ntips)

len_local(global_, local_, node_ntips) == Rat(Len(local_), 1)

apply_score_f(f, global_, local_, node_ntips) ==
    IF f = "len_local" THEN len_local(global_, local_, node_ntips)
    ELSE f1_measure(global_, local_, node_ntips)

----------------------------------------------------------------------------
(* score *)

all_seq_scores(h) == [q \in DOMAIN h[1] |-> asarray(h[1][q])]

global_for_LocalOnly(seq_scores, h, node, query) == h[node][query]

global_for(seq_scores, h, node, query) == seq_scores[query]

score(ch, h, nt, f) ==
    LET seq_scores == all_seq_scores(h)
    IN [node \in DOMAIN h |->
           [query \in DOMAIN h[node] |->
               apply_score_f(f, global_for(seq_scores, h, node, query),
                             h[node][query], nt[node])]]

----------------------------------------------------------------------------
(* best *)

battle_f_TieGoesToLater(cur_node, existing_node, cur_score, existing_score, mtd) ==
    IF RGt(cur_score, existing_score) THEN TRUE
    ELSE IF cur_score = existing_score
         THEN mtd[cur_node] <= mtd[existing_node]
         ELSE FALSE

battle_f(cur_node, existing_node, cur_score, existing_score, mtd) ==
    IF RGt(cur_score, existing_score) THEN TRUE
    ELSE IF cur_score = existing_score
         THEN mtd[cur_node] < mtd[existing_node]
         ELSE FALSE

store(node, sc) == [node |-> node, score |-> sc]

best_at_node(res, sc, mtd, node) ==
    [query \in (DOMAIN res) \cup (DOMAIN sc[node]) |->
        IF query \notin DOMAIN sc[node] THEN res[query]
        ELSE IF query \notin DOMAIN res THEN store(node, sc[node][query])
        ELSE IF battle_f(node, res[query].node, sc[node][query],
                         res[query].score, mtd)
             THEN store(node, sc[node][query])
             ELSE res[query]]

RECURSIVE best_over(_, _, _, _, _)
best_over(res, sc, mtd, order, k) ==
    IF k > Len(order) THEN res
    ELSE best_over(best_at_node(res, sc, mtd, order[k]), sc, mtd, order, k + 1)

best(ch, sc, mtd) ==
    best_over([q \in {} |-> store(0, <<0, 1>>)], sc, mtd, postorder(ch, 1), 1)

----------------------------------------------------------------------------
(* insert *)

length_f(node, query, sc) == 0

\* a caller's length_f, f(TreeNode, str, float) -> float, that reads the node
\* and the score it is given
length_by_place(node, query, sc) == 10 * node + sc[1]

apply_length_f(f, node, query, sc) ==
    IF f = "default" THEN length_f(node, query, sc)
    ELSE length_by_place(node, query, sc)

clears_Strict(sc, t) == RGt(sc, Rat(t, 1))

clears(sc, t) == RGe(sc, Rat(t, 1))

append_tip_Prepends(t, node, query, len) ==
    LET new == Len(t.parent) + 1
    IN [parent |-> Append(t.parent, node),
        children |-> Append([t.children EXCEPT ![node] = <<new>> \o @], <<>>),
        name |-> Append(t.name, query),
        length |-> Append(t.length, len)]

\* result['node'].append(skbio.TreeNode(name=query, length=length))
append_tip(t, node, query, len) ==
    LET new == Len(t.parent) + 1
    IN [parent |-> Append(t.parent, node),
        children |-> Append([t.children EXCEPT ![node] = Append(@, new)], <<>>),
        name |-> Append(t.name, query),
        length |-> Append(t.length, len)]

RECURSIVE insert_over(_, _, _, _, _, _)
insert_over(t, res, thr, f, order, k) ==
    IF k > Len(order) THEN t
    ELSE LET query == order[k]
             result == res[query]
         IN insert_over(
                IF clears(result.score, thr)
                THEN append_tip(t, result.node, query,
                                apply_length_f(f, result.node, query, result.score))
                ELSE t,
                res, thr, f, order, k + 1)

\* the orders in which scores.items() may yield the queries
ItemOrders(S) ==
    {o \in [1..Cardinality(S) -> S] : \A i, j \in DOMAIN o : o[i] = o[j] => i = j}

----------------------------------------------------------------------------
(* State machine *)

Unset == [i \in {} |-> 0]

HitRecords(nm) ==
    [query : Queries,
     subject : {nm[i] : i \in DOMAIN nm} \cup {NoSuchName},
     seq_score : SeqScores]

HitLists(nm) ==
    UNION {[1..k -> HitRecords(nm)] :
              k \in {j \in 0..MaxHits : Len(nm) + j <= MaxSize}}

Init ==
    /\ \E n \in 1..MaxNodes : \E p \in TreeShapes(n) :
          /\ parent = p
          /\ children = ChildrenOf(p)
          /\ name = [i \in 1..n |-> NodeNames[i]]
          /\ length = [i \in 1..n |-> i]
    /\ hitlist \in HitLists(name)
    /\ threshold = <<>>
    /\ hits = Unset
    /\ ntips = Unset
    /\ min_tip_dist = Unset
    /\ root_dist = Unset
    /\ score_f = "none"
    /\ scores = Unset
    /\ results = Unset
    /\ ins_threshold = 0
    /\ length_fn = "none"
    /\ stage = "new"

Decorate ==
    /\ stage \in {"new", "decorated", "propagated"}
    /\ \E thr \in Thresholds :
          LET r == decorate(name, children, hitlist, thr)
          IN /\ threshold' = thr
             /\ hits' = r.hits
             /\ stage' = IF r.ok THEN "decorated" ELSE "failed"
    /\ UNCHANGED <<parent, children, name, length, hitlist, ntips,
                   min_tip_dist, root_dist, score_f, scores, results,
                   ins_threshold, length_fn>>

Propagate ==
    /\ stage = "decorated"
    /\ hits' = propagate(children, hits)
    /\ stage' = "propagated"
    /\ UNCHANGED <<parent, children, name, length, hitlist, threshold, ntips,
                   min_tip_dist, root_dist, score_f, scores, results,
                   ins_threshold, length_fn>>

Score ==
    /\ stage = "propagated"
    /\ \E f \in ScoreFns :
          LET nt == set_number_of_tips(children, ntips)
          IN /\ score_f' = f
             /\ ntips' = nt
             /\ scores' = score(children, hits, nt, f)
    /\ stage' = "scored"
    /\ UNCHANGED <<parent, children, name, length, hitlist, threshold, hits,
                   min_tip_dist, root_dist, results, ins_threshold,
                   length_fn>>

Best ==
    /\ stage = "scored"
    /\ LET mtd == set_minimum_distance_to_tips(children, min_tip_dist)
       IN /\ min_tip_dist' = mtd
          /\ root_dist' = set_distance_to_root(parent, children, root_dist)
          /\ results' = best(children, scores, mtd)
    /\ stage' = "selected"
    /\ UNCHANGED <<parent, children, name, length, hitlist, threshold, hits,
                   ntips, score_f, scores, ins_threshold, length_fn>>

\* insert(scores, threshold, length_f) with length_f among F
InsertWith(F) ==
    /\ stage = "selected"
    /\ \E thr \in InsertThresholds : \E f \in F :
       \E order \in ItemOrders(DOMAIN results) :
          LET t == insert_over([parent |-> parent, children |-> children,
                                name |-> name, length |-> length],
                               results, thr, f, order, 1)
          IN /\ ins_threshold' = thr
             /\ length_fn' = f
             /\ parent' = t.parent
             /\ children' = t.children
             /\ name' = t.name
             /\ length' = t.length
    /\ stage' = "inserted"
    /\ UNCHANGED <<hitlist, threshold, hits, ntips, min_tip_dist, root_dist,
                   score_f, scores, results>>

\* insert(scores, threshold): length_f is left to its default
Insert == InsertWith({"default"})

\* insert(scores, threshold, length_f): the caller may give a length_f
InsertLengths == InsertWith(LengthFns)

Next == Decorate \/ Propagate \/ Score \/ Best \/ Insert

Spec == Init /\ [][Next]_vars

NextLengths == Decorate \/ Propagate \/ Score \/ Best \/ InsertLengths

SpecLengths == Init /\ [][NextLengths]_vars

----------------------------------------------------------------------------
(* Vocabulary of the properties, stated on the tree and the inputs *)

Tips == {i \in DOMAIN children : children[i] = <<>>}

\* the tips at or below node i
TipsBelow(i) == {t \in Tips : AncOrSelf(parent, i, t)}

\* the tips that are proper descendants of node i
DescendantTips(i) == TipsBelow(i) \ {i}

\* number of occurrences of value v in sequence s
Count(s, v) == Cardinality({k \in DOMAIN s : s[k] = v})

RECURSIVE SumOver(_, _)
SumOver(S, f) ==
    IF S = {} THEN 0
    ELSE LET x == CHOOSE y \in S : TRUE IN f[x] + SumOver(S \ {x}, f)

RECURSIVE Keep(_, _)
Keep(s, keep) ==
    IF s = <<>> THEN <<>>
    ELSE (IF keep[Head(s)] THEN <<Head(s)>> ELSE <<>>) \o Keep(Tail(s), keep)

\* the threshold decorate was called with (0.0 when none was given)
CutOff == IF threshold = <<>> THEN 0 ELSE threshold[1]

\* positions of the hit list whose hit is of query Q and is not below the cut-off
RetainedAt(Q) ==
    {k \in DOMAIN hitlist : hitlist[k].query = Q /\ hitlist[k].seq_score >= CutOff}

\* the retained scores of query Q on subject subj, in input order
RetainedScores(Q, subj) ==
    LET idx == Keep([k \in DOMAIN hitlist |-> k],
                    [k \in DOMAIN hitlist |->
                        k \in RetainedAt(Q) /\ hitlist[k].subject = subj])
    IN [j \in DOMAIN idx |-> hitlist[idx[j]].seq_score]

NamesTip(subj) == \E t \in Tips : name[t] = subj

----------------------------------------------------------------------------
(* C2: decorate on the tips *)

\* C2: after decorate returns, every tip t holds for every query Q exactly
\* the scores of Q's hits on t that are not below the threshold, in input
\* order, and has no entry for Q when there is none; whatever hits the tree
\* carried before the call is gone.
C2_TipsHoldRetainedScores ==
    stage = "decorated" =>
        \A t \in Tips : \A Q \in Queries :
            /\ Get(hits[t], Q) = RetainedScores(Q, name[t])
            /\ (Q \in DOMAIN hits[t]) <=> (RetainedScores(Q, name[t]) # <<>>)

\* a tip holding a score equal to the threshold while another hit of the
\* list was dropped by the threshold
C2_Witness ==
    /\ stage = "decorated"
    /\ threshold = <<2>>
    /\ \E t \in Tips : \E Q \in Queries :
          /\ Q \in DOMAIN hits[t]
          /\ \E k \in DOMAIN hits[t][Q] : hits[t][Q][k] = 2
    /\ \E k \in DOMAIN hitlist : hitlist[k].seq_score < 2

----------------------------------------------------------------------------
(* C1: propagate aggregates the tips *)

\* C1: after propagate(decorate(...)), every internal node's hits[Q] is, as
\* a multiset, the union of hits[Q] over its descendant tips, with no entry
\* when no descendant tip has one; the root holds every retained score of Q.
C1_InternalIsUnionOfDescendantTips ==
    stage = "propagated" =>
        \A i \in DOMAIN children \ Tips : \A Q \in Queries :
            /\ \A v \in SeqScores :
                  Count(Get(hits[i], Q), v) =
                      SumOver(DescendantTips(i),
                              [t \in DescendantTips(i) |-> Count(Get(hits[t], Q), v)])
            /\ (Q \in DOMAIN hits[i]) <=>
                  (\E t \in DescendantTips(i) : Q \in DOMAIN hits[t])
            /\ (i = 1) => Len(Get(hits[i], Q)) = Cardinality(RetainedAt(Q))

----------------------------------------------------------------------------
(* C3: when decorate fails *)

\* C3: decorate fails with a lookup error exactly when some hit that is not
\* below the threshold has a subject naming no tip; a hit below the threshold
\* never makes it fail.
C3_FailsIffRetainedHitNamesNoTip ==
    stage \in {"decorated", "failed"} =>
        ((stage = "failed") <=>
            \E k \in DOMAIN hitlist :
                /\ hitlist[k].seq_score >= CutOff
                /\ ~NamesTip(hitlist[k].subject))

----------------------------------------------------------------------------
(* C4: decorate leaves the internal nodes empty *)

\* C4: after decorate returns without error, the hits mapping of every
\* internal node is empty.
C4_InternalNodesEmptyAfterDecorate ==
    stage = "decorated" =>
        \A i \in DOMAIN children \ Tips : DOMAIN hits[i] = {}

----------------------------------------------------------------------------
(* C5: score *)

\* C5: after score on a decorated and propagated tree, every node's scores
\* has the keys of its hits, each key's hits are non-empty, and scores[Q] is
\* score_f applied to the root's collection for Q, the node's own collection
\* and the node with ntips already equal to its number of descendant tips.
C5_ScoresFollowHits ==
    stage = "scored" =>
        \A n \in DOMAIN children :
            /\ n \in DOMAIN scores
            /\ DOMAIN scores[n] = DOMAIN hits[n]
            /\ \A Q \in DOMAIN hits[n] :
                  /\ hits[n][Q] # <<>>
                  /\ ntips[n] = Cardinality(TipsBelow(n))
                  /\ scores[n][Q] =
                        apply_score_f(score_f, hits[1][Q], hits[n][Q],
                                      Cardinality(TipsBelow(n)))

\* a scored node below the root that holds only part of the root's scores of
\* a query, under the F1 measure
C5_Witness ==
    /\ stage = "scored"
    /\ score_f = "f1_measure"
    /\ \E n \in DOMAIN scores \ {1} : \E Q \in DOMAIN scores[n] :
          /\ Len(hits[n][Q]) < Len(hits[1][Q])
          /\ ntips[n] < ntips[1]

----------------------------------------------------------------------------
(* C9: ntips *)

\* C9: once ntips is computed, every tip has ntips = 1, every internal node's
\* ntips is the sum of its children's, and the root's is the number of tips
\* of the tree, whatever the number of children of a node.
C9_NtipsCountsTips ==
    stage \in {"scored", "selected"} =>
        /\ \A t \in Tips : ntips[t] = 1
        /\ \A i \in DOMAIN children \ Tips :
              ntips[i] = SumOver({children[i][k] : k \in DOMAIN children[i]}, ntips)
        /\ ntips[1] = Cardinality(Tips)

\* a tree where one node has a single child and that child has more than
\* one, or where a node has three children
C9_Witness ==
    /\ stage = "scored"
    /\ \/ \E i \in DOMAIN children :
             /\ Len(children[i]) = 1
             /\ Len(children[children[i][1]]) = 2
             /\ ntips[i] = 2
       \/ \E i \in DOMAIN children : Len(children[i]) = 3 /\ ntips[i] = 3

----------------------------------------------------------------------------
(* C10: sizes seen by the F-beta measure *)

\* the pseudo-precision of make_f_beta at node n for query Q
PseudoPrecision(n, Q) == Rat(Len(hits[1][Q]), Len(hits[n][Q]))

\* C10: after decorate, propagate and score, wherever a node has a score for
\* Q its own collection is non-empty and no larger than the root's, so
\* p = |global| / |local| is at least 1, and is 1 exactly when the node holds
\* every retained hit of Q.
C10_LocalWithinGlobal ==
    stage = "scored" =>
        \A n \in DOMAIN scores : \A Q \in DOMAIN scores[n] :
            /\ 1 <= Len(hits[n][Q])
            /\ Len(hits[n][Q]) <= Len(hits[1][Q])
            /\ RGe(PseudoPrecision(n, Q), Rat(1, 1))
            /\ (PseudoPrecision(n, Q) = Rat(1, 1)) <=>
                  (Len(hits[n][Q]) = Cardinality(RetainedAt(Q)))

\* one query scored at a node holding all of its retained hits and at a
\* node holding only some of them
C10_Witness ==
    /\ stage = "scored"
    /\ \E Q \in Queries : \E n, m \in DOMAIN scores :
          /\ n # 1
          /\ Q \in DOMAIN scores[n]
          /\ Q \in DOMAIN scores[m]
          /\ PseudoPrecision(n, Q) = Rat(1, 1)
          /\ PseudoPrecision(m, Q) = Rat(2, 1)

----------------------------------------------------------------------------
(* C6: best with the default battle function *)

RECURSIVE Depth(_)
Depth(i) == IF parent[i] = 0 THEN 0 ELSE 1 + Depth(parent[i])

\* the minimum number of edges from node i down to a tip
MinTipDist(i) ==
    LET D == {Depth(t) - Depth(i) : t \in TipsBelow(i)}
    IN CHOOSE d \in D : \A e \in D : d <= e

\* the nodes carrying a score for query Q
Scored(Q) == {n \in DOMAIN scores : Q \in DOMAIN scores[n]}

\* node n beats node m for Q: greater score, or equal score nearer to a tip
Beats(n, m, Q) ==
    \/ RGt(scores[n][Q], scores[m][Q])
    \/ /\ ~RGt(scores[m][Q], scores[n][Q])
       /\ MinTipDist(n) < MinTipDist(m)

\* postorder visits i before j (the nodes are numbered in preorder)
VisitedBefore(i, j) ==
    /\ i # j
    /\ \/ AncOrSelf(parent, j, i)
       \/ ~AncOrSelf(parent, i, j) /\ i < j

\* C6: best has one entry for each query scored somewhere and no other; the
\* entry's node has the greatest score, among those the smallest
\* min_tip_dist, among those it is the first in postorder; the entry's score
\* is that node's score.
C6_BestIsFirstGreatestNearestTip ==
    stage = "selected" =>
        /\ DOMAIN results = {Q \in Queries : Scored(Q) # {}}
        /\ \A Q \in DOMAIN results :
              LET w == results[Q].node
              IN /\ w \in Scored(Q)
                 /\ results[Q].score = scores[w][Q]
                 /\ min_tip_dist[w] = MinTipDist(w)
                 /\ \A m \in Scored(Q) \ {w} :
                       \/ Beats(w, m, Q)
                       \/ ~Beats(m, w, Q) /\ VisitedBefore(w, m)

\* a query whose chosen node ties in score with a node further from the
\* tips, and ties in score and distance with a node visited later, while a
\* third node scores less
C6_Witness ==
    /\ stage = "selected"
    /\ \E Q \in DOMAIN results :
          LET w == results[Q].node
          IN /\ \E m \in Scored(Q) :
                   /\ scores[m][Q] = scores[w][Q]
                   /\ MinTipDist(w) < MinTipDist(m)
             /\ \E m \in Scored(Q) \ {w} :
                   /\ scores[m][Q] = scores[w][Q]
                   /\ MinTipDist(w) = MinTipDist(m)
                   /\ VisitedBefore(w, m)
             /\ \E m \in Scored(Q) : RGt(scores[w][Q], scores[m][Q])

----------------------------------------------------------------------------
(* C8: raising the decoration threshold *)

SubMultiset(s, t) == \A v \in SeqScores : Count(s, v) <= Count(t, v)

\* C8: with the same tree and hit list, after decorate and propagate under
\* the present threshold every hits[Q] is a sub-multiset of what decorate
\* and propagate give under any lower threshold on which decorate succeeds.
C8_ThresholdMonotone ==
    stage = "propagated" =>
        \A t1 \in Thresholds :
            LET low == decorate(name, children, hitlist, t1)
            IN (default_threshold(t1) <= CutOff /\ low.ok) =>
                  LET under_t1 == propagate(children, low.hits)
                  IN \A n \in DOMAIN hits : \A Q \in Queries :
                        /\ SubMultiset(Get(hits[n], Q), Get(under_t1[n], Q))
                        /\ Len(Get(hits[n], Q)) <= Len(Get(under_t1[n], Q))

\* a node that keeps one of a query's scores under the present threshold
\* and had two under the default threshold
C8_Witness ==
    /\ stage = "propagated"
    /\ threshold = <<2>>
    /\ LET under_t1 == propagate(children, decorate(name, children, hitlist, <<>>).hits)
       IN \E n \in DOMAIN hits : \E Q \in DOMAIN hits[n] :
             Len(hits[n][Q]) = 1 /\ Len(under_t1[n][Q]) = 2

----------------------------------------------------------------------------
(* C7: insert *)

NewNodes == (Len(parent) + 1)..Len(parent')

----------------------------------------------------------------------------
(* C11: what insert and the other operations leave alone *)

\* the first n elements of sequence s
Prefix(s, n) == SubSeq(s, 1, n)

\* C11: insert only appends nodes: every node there before the call keeps
\* its parent, name, branch length, hits, scores and its children in their
\* order; each appended node has the branch length length_f(node, query,
\* score) gives for it (0 by default) and no hits or scores; decorate,
\* propagate, score and best change no parent or child link, name or branch
\* length.
C11_InsertOnlyAppends ==
    [][IF stage' = "inserted"
       THEN LET n == Len(parent)
            IN /\ Len(parent') >= n
               /\ Prefix(parent', n) = parent
               /\ Prefix(name', n) = name
               /\ Prefix(length', n) = length
               /\ hits' = hits
               /\ scores' = scores
               /\ DOMAIN children' = DOMAIN parent'
               /\ \A v \in 1..n : Prefix(children'[v], Len(children[v])) = children[v]
               /\ \A j \in (n + 1)..Len(parent') :
                     /\ name'[j] \in DOMAIN results
                     /\ parent'[j] = results[name'[j]].node
                     /\ length'[j] =
                           (IF length_fn' = "default" THEN 0
                            ELSE 10 * parent'[j] + results[name'[j]].score[1])
                     /\ j \notin DOMAIN hits'
                     /\ j \notin DOMAIN scores'
       ELSE UNCHANGED <<parent, children, name, length>>
      ]_vars

\* after an insert with a caller's length_f that grafted a tip, with the
\* branch length that function gives, under a node which already had a child
C11_Witness ==
    /\ stage = "inserted"
    /\ length_fn = "by_place"
    /\ \E j \in DOMAIN parent :
          /\ name[j] \in Queries
          /\ length[j] = 10 * parent[j] + results[name[j]].score[1]
          /\ Len(children[parent[j]]) >= 2
          /\ j \notin DOMAIN hits
          /\ \E i \in DOMAIN hits : hits[i] # EmptyDict /\ length[i] = i

====
